---- MODULE Spec2Model ----
(***************************************************************************)
(* The five demonstration scripts 01_simple_rag.py .. 05_basic_Agent.py    *)
(* as one state machine.  A shell launches one script at a time; pc is the *)
(* source line of the next statement of the running script.  Every call    *)
(* into the wrapped framework either returns or raises; no script contains *)
(* a try/except, so a raise ends the invocation at that line.              *)
(* What outlives an invocation is the pdf/ folder, the credential of the   *)
(* environment file and the ./chroma_db directory.                         *)
(***************************************************************************)
EXTENDS Naturals, Sequences, FiniteSets, Bags, TLC

VARIABLES
    pdf,               \* files of the local folder pdf/
    apiKey,            \* the environment file supplies the API credential
    chroma_db,         \* ./chroma_db on disk: the collections and their entries
    invocations,       \* number of script invocations started so far
    script,            \* the script being run ("none" before the first)
    status,            \* "idle", "running", "done" or "failed"
    pc,                \* line of the next statement (0 when not running)
    documents,         \* documents / data
    llm,               \* llm
    index,             \* index
    engine,            \* query_engine / chat_engine / agent
    chroma_collection, \* 04: chroma_collection
    storage_context,   \* 04: vector_store wrapped in storage_context
    tools,             \* 05: the FunctionTool objects made so far
    text_input,        \* 03: text_input
    lines_read,        \* 03: the lines input() has returned, in order
    response,          \* response
    calls,             \* the query()/chat() calls made, in order
    stdout,            \* what was written to the console, in order
    trace              \* kinds of the statements completed by this invocation

persistent == <<pdf, apiKey, chroma_db>>
volatile == <<script, status, pc, documents, llm, index, engine,
              chroma_collection, storage_context, tools, text_input,
              lines_read, response, calls, stdout, trace>>
vars == <<pdf, apiKey, chroma_db, invocations, script, status, pc, documents,
          llm, index, engine, chroma_collection, storage_context, tools,
          text_input, lines_read, response, calls, stdout, trace>>

\* ------------------------------------------------------------------ bounds
MaxInvocations == 3
MaxTurns == 2

\* ------------------------------------------------------------- input sets
Files == {"a.pdf", "b.pdf"}
Lines == {"exit", "Exit", "EXIT", " exit", "exit ", "exit now", "", "hello"}
Scripts == {"01", "02", "03", "04", "05"}

\* -------------------------------------------------------- program literals
Query01 == "What are the design goals and give details about it please."
Query05 == "What is 20+(2*4) / (5 - 1)? Use a tool to calculate every step."
DefaultLLM == [model |-> "default", temperature |-> "default", max_tokens |-> "default"]
NoIndex == [docs |-> {}, store |-> "none"]
NoEngine == [kind |-> "none", mode |-> "none", over |-> NoIndex, history |-> <<>>]
NoResponse == [to |-> "", turn |-> 0]

\* first statement of each script (imports aside)
FirstLine(s) ==
    CASE s = "01" -> 4
      [] s = "02" -> 6
      [] s = "03" -> 7
      [] s = "04" -> 8
      [] s = "05" -> 9

\* --------------------------------------------------- the wrapped framework
\* OpenAI(model=..., temperature=..., max_tokens=...)
OpenAI(model, temperature, max_tokens) ==
    [model |-> model, temperature |-> temperature, max_tokens |-> max_tokens]

\* SimpleDirectoryReader(dir).load_data(): raises when the folder has no file
CanLoad(dir) == dir # {}
load_data(dir) == dir

\* VectorStoreIndex.from_documents(docs): an in-memory index
from_documents(docs) == [docs |-> docs, store |-> "memory"]

\* index.as_query_engine(): a stateless query interface
as_query_engine(ix) ==
    [kind |-> "query", mode |-> "default", over |-> ix, history |-> <<>>]

\* index.as_chat_engine(chat_mode=...): a chat interface with empty history
as_chat_engine(ix, mode) ==
    [kind |-> "chat", mode |-> mode, over |-> ix, history |-> <<>>]

\* the answer of the remote model: an uninterpreted value of the question
\* and of the conversation so far
Reply(e, q) == [to |-> q, turn |-> Len(e.history) + 1]

\* engine.chat(q) records the exchange in the engine's conversation
AfterChat(e, q) == [e EXCEPT !.history = Append(@, <<q, Reply(e, q)>>)]

\* a remote call needs the credential; with it the call may still fail
RemoteOutcomes == IF apiKey THEN {TRUE, FALSE} ELSE {FALSE}

\* ------------------------------------------------------------ control flow
At(s, line) == script = s /\ status = "running" /\ pc = line

\* the statement returned: go on with the next statement
Goto(next, kind) ==
    /\ pc' = next
    /\ status' = status
    /\ trace' = Append(trace, kind)

\* the statement raised: nothing catches it, the invocation ends here
Raise ==
    /\ pc' = pc
    /\ status' = "failed"
    /\ trace' = trace

\* the last statement returned: the script ends
Finish(kind) ==
    /\ pc' = 0
    /\ status' = "done"
    /\ trace' = Append(trace, kind)

\* print(...)
py_print(text, resp) == stdout' = Append(stdout, [text |-> text, resp |-> resp])

\* the shell starts script s in a fresh interpreter
Launch(s) ==
    /\ status \in {"idle", "done", "failed"}
    /\ invocations < MaxInvocations
    /\ invocations' = invocations + 1
    /\ script' = s
    /\ status' = "running"
    /\ pc' = FirstLine(s)
    /\ documents' = {}
    /\ llm' = DefaultLLM
    /\ index' = NoIndex
    /\ engine' = NoEngine
    /\ chroma_collection' = "none"
    /\ storage_context' = "none"
    /\ tools' = {}
    /\ text_input' = ""
    /\ lines_read' = <<>>
    /\ response' = NoResponse
    /\ calls' = <<>>
    /\ stdout' = <<>>
    /\ trace' = <<>>
    /\ UNCHANGED persistent

Init ==
    /\ pdf \in SUBSET Files
    /\ apiKey \in BOOLEAN
    /\ chroma_db = [exists |-> FALSE, collections |-> <<>>]
    /\ invocations = 0
    /\ script = "none"
    /\ status = "idle"
    /\ pc = 0
    /\ documents = {}
    /\ llm = DefaultLLM
    /\ index = NoIndex
    /\ engine = NoEngine
    /\ chroma_collection = "none"
    /\ storage_context = "none"
    /\ tools = {}
    /\ text_input = ""
    /\ lines_read = <<>>
    /\ response = NoResponse
    /\ calls = <<>>
    /\ stdout = <<>>
    /\ trace = <<>>

\* ------------------------------------------------------- 01_simple_rag.py
S01_L4 ==  \* load_dotenv()
    /\ At("01", 4)
    /\ Goto(5, "a")
    /\ UNCHANGED <<persistent, invocations, script, documents, llm, index,
                   engine, chroma_collection, storage_context, tools,
                   text_input, lines_read, response, calls, stdout>>

S01_L5 ==  \* OpenAI(model="gpt-3.5-turbo"): the object is not kept
    /\ At("01", 5)
    /\ Goto(6, "llm")
    /\ UNCHANGED <<persistent, invocations, script, documents, llm, index,
                   engine, chroma_collection, storage_context, tools,
                   text_input, lines_read, response, calls, stdout>>

S01_L6 ==  \* documents = SimpleDirectoryReader("pdf/").load_data()
    /\ At("01", 6)
    /\ \/ CanLoad(pdf) /\ documents' = load_data(pdf) /\ Goto(8, "b")
       \/ UNCHANGED documents /\ Raise
    /\ UNCHANGED <<persistent, invocations, script, llm, index,
                   engine, chroma_collection, storage_context, tools,
                   text_input, lines_read, response, calls, stdout>>

S01_L8 ==  \* index = VectorStoreIndex.from_documents(documents)
    /\ At("01", 8)
    /\ \E ok \in RemoteOutcomes :
         IF ok THEN index' = from_documents(documents) /\ Goto(10, "c")
               ELSE UNCHANGED index /\ Raise
    /\ UNCHANGED <<persistent, invocations, script, documents, llm,
                   engine, chroma_collection, storage_context, tools,
                   text_input, lines_read, response, calls, stdout>>

\* variant: the query statement left out, the print following the construction
S01_L10_skipquery ==
    /\ At("01", 10)
    /\ engine' = as_query_engine(index)
    /\ Goto(14, "d")
    /\ UNCHANGED <<persistent, invocations, script, documents, llm, index,
                   chroma_collection, storage_context, tools,
                   text_input, lines_read, response, calls, stdout>>

S01_L10 ==  \* query_engine = index.as_query_engine()
    /\ At("01", 10)
    /\ engine' = as_query_engine(index)
    /\ Goto(12, "d")
    /\ UNCHANGED <<persistent, invocations, script, documents, llm, index,
                   chroma_collection, storage_context, tools,
                   text_input, lines_read, response, calls, stdout>>

S01_L12 ==  \* response = query_engine.query("What are the design goals ...")
    /\ At("01", 12)
    /\ \E ok \in RemoteOutcomes :
         /\ calls' = Append(calls, [q |-> Query01, ok |-> ok])
         /\ IF ok THEN response' = Reply(engine, Query01) /\ Goto(14, "e")
                  ELSE UNCHANGED response /\ Raise
    /\ UNCHANGED <<persistent, invocations, script, documents, llm, index,
                   engine, chroma_collection, storage_context, tools,
                   text_input, lines_read, stdout>>

S01_L14 ==  \* print(response)
    /\ At("01", 14)
    /\ py_print("", response)
    /\ Finish("f")
    /\ UNCHANGED <<persistent, invocations, script, documents, llm, index,
                   engine, chroma_collection, storage_context, tools,
                   text_input, lines_read, response, calls>>

\* ---------------------------------------------- 02_rag_using_chat_engine.py
S02_L6 ==  \* load_dotenv()
    /\ At("02", 6)
    /\ Goto(8, "a")
    /\ UNCHANGED <<persistent, invocations, script, documents, llm, index,
                   engine, chroma_collection, storage_context, tools,
                   text_input, lines_read, response, calls, stdout>>

S02_L8 ==  \* llm = OpenAI(model="gpt-3.5-turbo")
    /\ At("02", 8)
    /\ llm' = OpenAI("gpt-3.5-turbo", "default", "default")
    /\ Goto(9, "llm")
    /\ UNCHANGED <<persistent, invocations, script, documents, index,
                   engine, chroma_collection, storage_context, tools,
                   text_input, lines_read, response, calls, stdout>>

S02_L9 ==  \* data = SimpleDirectoryReader("pdf/").load_data()
    /\ At("02", 9)
    /\ \/ CanLoad(pdf) /\ documents' = load_data(pdf) /\ Goto(10, "b")
       \/ UNCHANGED documents /\ Raise
    /\ UNCHANGED <<persistent, invocations, script, llm, index,
                   engine, chroma_collection, storage_context, tools,
                   text_input, lines_read, response, calls, stdout>>

\* variant: the index of 02 built over a store persisted on disk
S02_L10_persist ==
    /\ At("02", 10)
    /\ \E ok \in RemoteOutcomes :
         IF ok THEN /\ index' = from_documents(documents)
                    /\ chroma_db' = [exists |-> TRUE, collections |-> ("quickstart" :> SetToBag(documents)) @@ chroma_db.collections]
                    /\ Goto(12, "c")
               ELSE UNCHANGED <<index, chroma_db>> /\ Raise
    /\ UNCHANGED <<pdf, apiKey, invocations, script, documents, llm,
                   engine, chroma_collection, storage_context, tools,
                   text_input, lines_read, response, calls, stdout>>

S02_L10 ==  \* index = VectorStoreIndex.from_documents(data)
    /\ At("02", 10)
    /\ \E ok \in RemoteOutcomes :
         IF ok THEN index' = from_documents(documents) /\ Goto(12, "c")
               ELSE UNCHANGED index /\ Raise
    /\ UNCHANGED <<persistent, invocations, script, documents, llm,
                   engine, chroma_collection, storage_context, tools,
                   text_input, lines_read, response, calls, stdout>>

S02_L12 ==  \* chat_engine = index.as_chat_engine(chat_mode="best", llm=llm, ...)
    /\ At("02", 12)
    /\ engine' = as_chat_engine(index, "best")
    /\ Goto(14, "d")
    /\ UNCHANGED <<persistent, invocations, script, documents, llm, index,
                   chroma_collection, storage_context, tools,
                   text_input, lines_read, response, calls, stdout>>

S02_L14 ==  \* response = chat_engine.chat("What are the design goals ...")
    /\ At("02", 14)
    /\ \E ok \in RemoteOutcomes :
         /\ calls' = Append(calls, [q |-> Query01, ok |-> ok])
         /\ IF ok THEN /\ response' = Reply(engine, Query01)
                       /\ engine' = AfterChat(engine, Query01)
                       /\ Goto(18, "e")
                  ELSE UNCHANGED <<response, engine>> /\ Raise
    /\ UNCHANGED <<persistent, invocations, script, documents, llm, index,
                   chroma_collection, storage_context, tools,
                   text_input, lines_read, stdout>>

\* variant: the response printed a second time
S02_L18_twice ==
    /\ At("02", 18)
    /\ stdout' = Append(Append(stdout, [text |-> "", resp |-> response]),
                        [text |-> "", resp |-> response])
    /\ Finish("f")
    /\ UNCHANGED <<persistent, invocations, script, documents, llm, index,
                   engine, chroma_collection, storage_context, tools,
                   text_input, lines_read, response, calls>>

S02_L18 ==  \* print(response)
    /\ At("02", 18)
    /\ py_print("", response)
    /\ Finish("f")
    /\ UNCHANGED <<persistent, invocations, script, documents, llm, index,
                   engine, chroma_collection, storage_context, tools,
                   text_input, lines_read, response, calls>>

\* ------------------------------------------------------- 03_rag_chatbot.py
S03_L7 ==  \* load_dotenv()
    /\ At("03", 7)
    /\ Goto(9, "a")
    /\ UNCHANGED <<persistent, invocations, script, documents, llm, index,
                   engine, chroma_collection, storage_context, tools,
                   text_input, lines_read, response, calls, stdout>>

S03_L9 ==  \* llm = OpenAI(model="gpt-3.5-turbo", temperature=0)
    /\ At("03", 9)
    /\ llm' = OpenAI("gpt-3.5-turbo", "0", "default")
    /\ Goto(10, "llm")
    /\ UNCHANGED <<persistent, invocations, script, documents, index,
                   engine, chroma_collection, storage_context, tools,
                   text_input, lines_read, response, calls, stdout>>

S03_L10 ==  \* data = SimpleDirectoryReader(input_dir="pdf/").load_data()
    /\ At("03", 10)
    /\ \/ CanLoad(pdf) /\ documents' = load_data(pdf) /\ Goto(11, "b")
       \/ UNCHANGED documents /\ Raise
    /\ UNCHANGED <<persistent, invocations, script, llm, index,
                   engine, chroma_collection, storage_context, tools,
                   text_input, lines_read, response, calls, stdout>>

S03_L11 ==  \* index = VectorStoreIndex.from_documents(data)
    /\ At("03", 11)
    /\ \E ok \in RemoteOutcomes :
         IF ok THEN index' = from_documents(documents) /\ Goto(14, "c")
               ELSE UNCHANGED index /\ Raise
    /\ UNCHANGED <<persistent, invocations, script, documents, llm,
                   engine, chroma_collection, storage_context, tools,
                   text_input, lines_read, response, calls, stdout>>

S03_L14 ==  \* chat_engine = index.as_chat_engine(chat_mode="condense_question", ...)
    /\ At("03", 14)
    /\ engine' = as_chat_engine(index, "condense_question")
    /\ Goto(17, "d")
    /\ UNCHANGED <<persistent, invocations, script, documents, llm, index,
                   chroma_collection, storage_context, tools,
                   text_input, lines_read, response, calls, stdout>>

S03_L17 ==  \* text_input = input("User: "): the prompt is written, a line is read;
            \* end of input raises EOFError
    /\ At("03", 17)
    /\ py_print("User: ", NoResponse)
    /\ \/ /\ Len(lines_read) < MaxTurns
          /\ \E line \in Lines :
               /\ text_input' = line
               /\ lines_read' = Append(lines_read, line)
          /\ Goto(18, "e")
       \/ UNCHANGED <<text_input, lines_read>> /\ Raise
    /\ UNCHANGED <<persistent, invocations, script, documents, llm, index,
                   engine, chroma_collection, storage_context, tools,
                   response, calls>>

\* variant: text_input.lower() == "exit"
IsExit_anycase(line) == line \in {"exit", "Exit", "EXIT"}

\* text_input == "exit"
IsExit(line) == line = "exit"

\* variant: "continue" written where "break" stands
S03_L18_continue ==
    /\ At("03", 18)
    /\ IF IsExit(text_input)
         THEN pc' = 17 /\ status' = status /\ trace' = trace
         ELSE pc' = 20 /\ status' = status /\ trace' = trace
    /\ UNCHANGED <<persistent, invocations, script, documents, llm, index,
                   engine, chroma_collection, storage_context, tools,
                   text_input, lines_read, response, calls, stdout>>

S03_L18 ==  \* if text_input == "exit": break
    /\ At("03", 18)
    /\ IF IsExit(text_input)
         THEN pc' = 0 /\ status' = "done" /\ trace' = trace
         ELSE pc' = 20 /\ status' = status /\ trace' = trace
    /\ UNCHANGED <<persistent, invocations, script, documents, llm, index,
                   engine, chroma_collection, storage_context, tools,
                   text_input, lines_read, response, calls, stdout>>

\* text_input.strip() on the lines of the input set
strip(line) == IF line \in {" exit", "exit "} THEN "exit" ELSE line

\* variant: the chat call wrapped in try/except, the loop going on after a failure
S03_L20_caught ==
    /\ At("03", 20)
    /\ \E ok \in RemoteOutcomes :
         /\ calls' = Append(calls, [q |-> text_input, ok |-> ok])
         /\ IF ok THEN /\ response' = Reply(engine, text_input)
                       /\ engine' = AfterChat(engine, text_input)
                       /\ Goto(21, "e")
                  ELSE UNCHANGED <<response, engine>> /\ pc' = 17 /\ status' = status /\ trace' = trace
    /\ UNCHANGED <<persistent, invocations, script, documents, llm, index,
                   chroma_collection, storage_context, tools,
                   text_input, lines_read, stdout>>

\* variant: chat_engine.chat(text_input.strip())
S03_L20_strip ==
    /\ At("03", 20)
    /\ \E ok \in RemoteOutcomes :
         /\ calls' = Append(calls, [q |-> strip(text_input), ok |-> ok])
         /\ IF ok THEN /\ response' = Reply(engine, strip(text_input))
                       /\ engine' = AfterChat(engine, strip(text_input))
                       /\ Goto(21, "e")
                  ELSE UNCHANGED <<response, engine>> /\ Raise
    /\ UNCHANGED <<persistent, invocations, script, documents, llm, index,
                   chroma_collection, storage_context, tools,
                   text_input, lines_read, stdout>>

S03_L20 ==  \* response = chat_engine.chat(text_input)
    /\ At("03", 20)
    /\ \E ok \in RemoteOutcomes :
         /\ calls' = Append(calls, [q |-> text_input, ok |-> ok])
         /\ IF ok THEN /\ response' = Reply(engine, text_input)
                       /\ engine' = AfterChat(engine, text_input)
                       /\ Goto(21, "e")
                  ELSE UNCHANGED <<response, engine>> /\ Raise
    /\ UNCHANGED <<persistent, invocations, script, documents, llm, index,
                   chroma_collection, storage_context, tools,
                   text_input, lines_read, stdout>>

\* variant: the engine construction placed inside the loop
S03_L21_rebuild ==
    /\ At("03", 21)
    /\ py_print("Agent: ", response)
    /\ Goto(14, "f")
    /\ UNCHANGED <<persistent, invocations, script, documents, llm, index,
                   engine, chroma_collection, storage_context, tools,
                   text_input, lines_read, response, calls>>

S03_L21 ==  \* print(f"Agent: {response}"); back to the head of while True
    /\ At("03", 21)
    /\ py_print("Agent: ", response)
    /\ Goto(17, "f")
    /\ UNCHANGED <<persistent, invocations, script, documents, llm, index,
                   engine, chroma_collection, storage_context, tools,
                   text_input, lines_read, response, calls>>

\* ------------------------------------------------------- 04_custom_rag.py
\* chromadb.PersistentClient(path="./chroma_db"): opens the directory,
\* creating it when it is not there
PersistentClient(disk) == [disk EXCEPT !.exists = TRUE]

\* variant: the collection is deleted and created anew
create_collection_anew(disk, name) ==
    [disk EXCEPT !.collections = (name :> EmptyBag) @@ @]

\* db.get_or_create_collection(name): an existing collection is reused as it is
get_or_create_collection(disk, name) ==
    IF name \in DOMAIN disk.collections
      THEN disk
      ELSE [disk EXCEPT !.collections = (name :> EmptyBag) @@ @]

\* VectorStoreIndex.from_documents(docs, storage_context=...): one entry per
\* document is added to the collection behind the storage context
insert_documents(disk, name, docs) ==
    [disk EXCEPT !.collections[name] = @ (+) SetToBag(docs)]

S04_L8 ==  \* load_dotenv()
    /\ At("04", 8)
    /\ Goto(11, "a")
    /\ UNCHANGED <<persistent, invocations, script, documents, llm, index,
                   engine, chroma_collection, storage_context, tools,
                   text_input, lines_read, response, calls, stdout>>

S04_L11 ==  \* documents = SimpleDirectoryReader("pdf/").load_data()
    /\ At("04", 11)
    /\ \/ CanLoad(pdf) /\ documents' = load_data(pdf) /\ Goto(14, "b")
       \/ UNCHANGED documents /\ Raise
    /\ UNCHANGED <<persistent, invocations, script, llm, index, engine,
                   chroma_collection, storage_context, tools, text_input,
                   lines_read, response, calls, stdout>>

S04_L14 ==  \* db = chromadb.PersistentClient(path="./chroma_db")
    /\ At("04", 14)
    /\ chroma_db' = PersistentClient(chroma_db)
    /\ Goto(15, "c")
    /\ UNCHANGED <<pdf, apiKey, invocations, script, documents, llm, index,
                   engine, chroma_collection, storage_context, tools,
                   text_input, lines_read, response, calls, stdout>>

S04_L15 ==  \* chroma_collection = db.get_or_create_collection("quickstart")
    /\ At("04", 15)
    /\ chroma_db' = get_or_create_collection(chroma_db, "quickstart")
    /\ chroma_collection' = "quickstart"
    /\ Goto(16, "c")
    /\ UNCHANGED <<pdf, apiKey, invocations, script, documents, llm, index,
                   engine, storage_context, tools, text_input, lines_read,
                   response, calls, stdout>>

S04_L16 ==  \* vector_store = ChromaVectorStore(chroma_collection=chroma_collection)
            \* storage_context = StorageContext.from_defaults(vector_store=vector_store)
    /\ At("04", 16)
    /\ storage_context' = chroma_collection
    /\ Goto(20, "c")
    /\ UNCHANGED <<persistent, invocations, script, documents, llm, index,
                   engine, chroma_collection, tools, text_input, lines_read,
                   response, calls, stdout>>

S04_L20 ==  \* llm = OpenAI(model="gpt-3.5-turbo", temperature=0.1, max_tokens=512)
    /\ At("04", 20)
    /\ llm' = OpenAI("gpt-3.5-turbo", "0.1", "512")
    /\ Goto(27, "llm")
    /\ UNCHANGED <<persistent, invocations, script, documents, index, engine,
                   chroma_collection, storage_context, tools, text_input,
                   lines_read, response, calls, stdout>>

S04_L27 ==  \* index = VectorStoreIndex.from_documents(documents,
            \*             storage_context=storage_context, llm=llm)
    /\ At("04", 27)
    /\ \E ok \in RemoteOutcomes :
         IF ok THEN /\ chroma_db' = insert_documents(chroma_db, storage_context, documents)
                    /\ index' = [docs |-> documents, store |-> storage_context]
                    /\ Goto(34, "c")
               ELSE UNCHANGED <<chroma_db, index>> /\ Raise
    /\ UNCHANGED <<pdf, apiKey, invocations, script, documents, llm, engine,
                   chroma_collection, storage_context, tools, text_input,
                   lines_read, response, calls, stdout>>

S04_L34 ==  \* query_engine = index.as_query_engine(llm=llm)
    /\ At("04", 34)
    /\ engine' = as_query_engine(index)
    /\ Goto(35, "d")
    /\ UNCHANGED <<persistent, invocations, script, documents, llm, index,
                   chroma_collection, storage_context, tools, text_input,
                   lines_read, response, calls, stdout>>

S04_L35 ==  \* response = query_engine.query("What are the design goals ...")
    /\ At("04", 35)
    /\ \E ok \in RemoteOutcomes :
         /\ calls' = Append(calls, [q |-> Query01, ok |-> ok])
         /\ IF ok THEN response' = Reply(engine, Query01) /\ Goto(36, "e")
                  ELSE UNCHANGED response /\ Raise
    /\ UNCHANGED <<persistent, invocations, script, documents, llm, index,
                   engine, chroma_collection, storage_context, tools,
                   text_input, lines_read, stdout>>

S04_L36 ==  \* print("***********")
    /\ At("04", 36)
    /\ py_print("***********", NoResponse)
    /\ Goto(37, "banner")
    /\ UNCHANGED <<persistent, invocations, script, documents, llm, index,
                   engine, chroma_collection, storage_context, tools,
                   text_input, lines_read, response, calls>>

S04_L37 ==  \* print(response)
    /\ At("04", 37)
    /\ py_print("", response)
    /\ Finish("f")
    /\ UNCHANGED <<persistent, invocations, script, documents, llm, index,
                   engine, chroma_collection, storage_context, tools,
                   text_input, lines_read, response, calls>>

\* ------------------------------------------------------- 05_basic_Agent.py
\* ReActAgent.from_tools(tools, llm=llm, verbose=True)
from_tools(ts) ==
    [kind |-> "agent", mode |-> "react", over |-> [docs |-> ts, store |-> "none"],
     history |-> <<>>]

S05_L9 ==  \* load_dotenv()
    /\ At("05", 9)
    /\ Goto(12, "a")
    /\ UNCHANGED <<persistent, invocations, script, documents, llm, index,
                   engine, chroma_collection, storage_context, tools,
                   text_input, lines_read, response, calls, stdout>>

S05_L12 ==  \* llm = OpenAI(model="gpt-3.5-turbo", temperature=0)
    /\ At("05", 12)
    /\ llm' = OpenAI("gpt-3.5-turbo", "0", "default")
    /\ Goto(14, "llm")
    /\ UNCHANGED <<persistent, invocations, script, documents, index, engine,
                   chroma_collection, storage_context, tools, text_input,
                   lines_read, response, calls, stdout>>

S05_L14 ==  \* def multiply; multiply_tool = FunctionTool.from_defaults(fn=multiply)
    /\ At("05", 14)
    /\ tools' = tools \cup {"multiply"}
    /\ Goto(22, "tool")
    /\ UNCHANGED <<persistent, invocations, script, documents, llm, index,
                   engine, chroma_collection, storage_context, text_input,
                   lines_read, response, calls, stdout>>

S05_L22 ==  \* def add; add_tool = FunctionTool.from_defaults(fn=add)
    /\ At("05", 22)
    /\ tools' = tools \cup {"add"}
    /\ Goto(29, "tool")
    /\ UNCHANGED <<persistent, invocations, script, documents, llm, index,
                   engine, chroma_collection, storage_context, text_input,
                   lines_read, response, calls, stdout>>

S05_L29 ==  \* def subtract; sub_tool = FunctionTool.from_defaults(fn=subtract)
    /\ At("05", 29)
    /\ tools' = tools \cup {"subtract"}
    /\ Goto(35, "tool")
    /\ UNCHANGED <<persistent, invocations, script, documents, llm, index,
                   engine, chroma_collection, storage_context, text_input,
                   lines_read, response, calls, stdout>>

S05_L35 ==  \* def divide; divide_tool = FunctionTool.from_defaults(fn=divide)
    /\ At("05", 35)
    /\ tools' = tools \cup {"divide"}
    /\ Goto(42, "tool")
    /\ UNCHANGED <<persistent, invocations, script, documents, llm, index,
                   engine, chroma_collection, storage_context, text_input,
                   lines_read, response, calls, stdout>>

S05_L42 ==  \* agent = ReActAgent.from_tools([multiply_tool, add_tool, sub_tool,
            \*                                divide_tool], llm=llm, verbose=True)
    /\ At("05", 42)
    /\ engine' = from_tools(tools)
    /\ Goto(44, "d")
    /\ UNCHANGED <<persistent, invocations, script, documents, llm, index,
                   chroma_collection, storage_context, tools, text_input,
                   lines_read, response, calls, stdout>>

S05_L44 ==  \* response = agent.chat("What is 20+(2*4) / (5 - 1)? ...")
    /\ At("05", 44)
    /\ \E ok \in RemoteOutcomes :
         /\ calls' = Append(calls, [q |-> Query05, ok |-> ok])
         /\ IF ok THEN /\ response' = Reply(engine, Query05)
                       /\ engine' = AfterChat(engine, Query05)
                       /\ Goto(46, "e")
                  ELSE UNCHANGED <<response, engine>> /\ Raise
    /\ UNCHANGED <<persistent, invocations, script, documents, llm, index,
                   chroma_collection, storage_context, tools, text_input,
                   lines_read, stdout>>

S05_L46 ==  \* print(response)
    /\ At("05", 46)
    /\ py_print("", response)
    /\ Finish("f")
    /\ UNCHANGED <<persistent, invocations, script, documents, llm, index,
                   engine, chroma_collection, storage_context, tools,
                   text_input, lines_read, response, calls>>

\* a statement of the running script (the console read of 03 aside)
ScriptStep ==
    \/ S01_L4 \/ S01_L5 \/ S01_L6 \/ S01_L8 \/ S01_L10 \/ S01_L12 \/ S01_L14
    \/ S02_L6 \/ S02_L8 \/ S02_L9 \/ S02_L10 \/ S02_L12 \/ S02_L14 \/ S02_L18
    \/ S03_L7 \/ S03_L9 \/ S03_L10 \/ S03_L11 \/ S03_L14
    \/ S03_L18 \/ S03_L20 \/ S03_L21
    \/ S04_L8 \/ S04_L11 \/ S04_L14 \/ S04_L15 \/ S04_L16 \/ S04_L20
    \/ S04_L27 \/ S04_L34 \/ S04_L35 \/ S04_L36 \/ S04_L37
    \/ S05_L9 \/ S05_L12 \/ S05_L14 \/ S05_L22 \/ S05_L29 \/ S05_L35
    \/ S05_L42 \/ S05_L44 \/ S05_L46

Next ==
    \/ \E s \in Scripts : Launch(s)
    \/ S03_L17
    \/ ScriptStep

Spec == Init /\ [][Next]_vars

\* the interpreter runs the statements of a script one after the other; only
\* the console read waits for somebody else
FairSpec == Spec /\ WF_vars(ScriptStep)

\* ================================================================ properties
Loop03 == {17, 18, 20, 21}
InLoop03 == script = "03" /\ status = "running" /\ pc \in Loop03
SixSteps == {"a", "b", "c", "d", "e", "f"}
Rank(k) ==
    CASE k = "a" -> 1 [] k = "b" -> 2 [] k = "c" -> 3
      [] k = "d" -> 4 [] k = "e" -> 5 [] k = "f" -> 6
IsSixStep(k) == k \in SixSteps
Steps == SelectSeq(trace, IsSixStep)
Has(k) == \E i \in 1..Len(trace) : trace[i] = k
Times(k) == Cardinality({i \in 1..Len(trace) : trace[i] = k})
ResponsePrints == {i \in 1..Len(stdout) : stdout[i].resp # NoResponse}
OkCalls == {i \in 1..Len(calls) : calls[i].ok}
ExitRead == \E i \in 1..Len(lines_read) : lines_read[i] = "exit"
NearMisses == {"Exit", "EXIT", " exit", "exit ", "exit now", ""}
FreshDisk == [exists |-> FALSE, collections |-> <<>>]

\* C1: in 03, once a line read by input() equals "exit" the loop is left and
\* the script ends: that line is the last one read, no chat call is made for
\* it and the prompt it answered is the last thing written to the console.
C1_ExitEndsLoop ==
    (script = "03" /\ ExitRead) =>
        /\ lines_read[Len(lines_read)] = "exit"
        /\ \A i \in 1..(Len(lines_read) - 1) : lines_read[i] # "exit"
        /\ \/ status = "running" /\ pc = 18
           \/ status = "done"
        /\ Len(calls) = Len(lines_read) - 1
        /\ Len(stdout) = 2 * Len(lines_read) - 1
        /\ stdout[Len(stdout)].text = "User: "

C1_Witness ==
    /\ script = "03" /\ status = "done"
    /\ lines_read = <<"hello", "exit">>

\* the steps (a)..(f) completed so far came in the order a, b, c, d, e, f;
\* in 03 the read of the next line follows the print of the previous answer
Ordered ==
    \A i, j \in 1..Len(Steps) :
        i < j => \/ Rank(Steps[i]) <= Rank(Steps[j])
                 \/ script = "03" /\ Steps[i] = "f" /\ Steps[j] = "e"

\* C2 as stated: every script that ends has performed all of (a)..(f), in order.
C2_Original ==
    status = "done" => (\A k \in SixSteps : Has(k)) /\ Ordered

Required(s) == IF s = "05" THEN {"a", "d", "e", "f"} ELSE SixSteps

\* C2 as amended: scripts 01..04 perform (a), (b), (c), (d) in this order and
\* then (e) and (f) for every query, 03 printing one response per line sent
\* to the chat engine (none when the first line is "exit"); script 05
\* performs (a), (d), (e), (f) in this order, reads no documents and builds
\* no index.  No step a script performs runs before an earlier one.
C2_Amended ==
    /\ Ordered
    /\ \A i \in 1..Len(Steps) : \A k \in Required(script) :
           Rank(k) < Rank(Steps[i]) => \E j \in 1..(i - 1) : Steps[j] = k
    /\ status = "done" =>
         /\ script \in {"01", "02", "04"} => \A k \in SixSteps : Has(k)
         /\ script = "03" =>
              /\ \A k \in {"a", "b", "c", "d", "e"} : Has(k)
              /\ Has("f") <=> Len(calls) > 0
         /\ script = "05" =>
              /\ \A k \in {"a", "d", "e", "f"} : Has(k)
              /\ ~Has("b") /\ ~Has("c")
              /\ documents = {} /\ index = NoIndex

C2_Witness ==
    /\ script = "05" /\ status = "done"
    /\ Steps = <<"a", "d", "e", "f">>

\* C3 as stated: when a script has ended, nothing it created or modified is
\* left on disk for a later invocation.
C3_Original ==
    status \in {"done", "failed"} => chroma_db = FreshDisk

\* C3 as amended: scripts 01, 02, 03 and 05 leave nothing behind; script 04
\* leaves the directory ./chroma_db and its collection "quickstart", which
\* later invocations find.  Everything else is rebuilt by each invocation.
C3_Amended ==
    [][ /\ chroma_db' # chroma_db =>
              script = "04" /\ status = "running" /\ pc \in {14, 15, 27}
        /\ pdf' = pdf /\ apiKey' = apiKey
        /\ invocations' # invocations =>
              /\ <<documents, index, engine, calls, stdout>>' =
                     <<{}, NoIndex, NoEngine, <<>>, <<>> >>
              /\ <<llm, tools, lines_read, response>>' =
                     <<DefaultLLM, {}, <<>>, NoResponse>>
      ]_vars

C3_Witness ==
    /\ invocations > 1
    /\ script # "04" /\ status = "done"
    /\ "quickstart" \in DOMAIN chroma_db.collections
    /\ chroma_db.collections["quickstart"] # EmptyBag

\* C4: a failing step is not caught: the invocation stops at that step, does
\* nothing more and does not retry; a failed query/chat call is the last call
\* made and no response is printed for it.
C4_StateAfterFailure ==
    /\ \A i \in 1..Len(calls) :
          ~calls[i].ok => i = Len(calls) /\ status = "failed"
    /\ Cardinality(ResponsePrints) <= Cardinality(OkCalls)
    /\ status = "failed" =>
          /\ pc # 0
          /\ Cardinality(ResponsePrints) = Cardinality(OkCalls)
          /\ script = "03" /\ pc = 17 => Len(calls) = Len(lines_read)

C4_NoErrorHandling ==
    /\ []C4_StateAfterFailure
    /\ [][ (status = "failed" /\ invocations' = invocations) =>
              UNCHANGED vars ]_vars
    /\ [][ (status' = "failed" /\ status = "running") =>
              /\ pc' = pc /\ trace' = trace /\ stdout' \in {stdout, Append(stdout, [text |-> "User: ", resp |-> NoResponse])}
              /\ UNCHANGED <<documents, index, engine, response, chroma_db>> ]_vars

C4_Witness ==
    /\ script = "03" /\ status = "failed" /\ pc = 20
    /\ Len(calls) = 2 /\ calls[1].ok /\ ~calls[2].ok
    /\ Len(stdout) = 3

\* C5: scripts 01, 02, 04 and 05 always come to an end, and when they end
\* normally they have made exactly one query/chat call and printed exactly
\* one response; script 03 ends normally only when "exit" was entered.
C5_OneShot ==
    /\ script \in {"01", "02", "04", "05"} => Len(calls) <= 1
    /\ (script \in {"01", "02", "04", "05"} /\ status = "done") =>
          /\ Len(calls) = 1 /\ calls[1].ok
          /\ Cardinality(ResponsePrints) = 1
          /\ \A i \in ResponsePrints : stdout[i].resp = response
    /\ (script = "03" /\ status = "done") => ExitRead

C5_Termination ==
    /\ []C5_OneShot
    /\ \A s \in {"01", "02", "04", "05"} :
          (script = s /\ status = "running") ~> (status \in {"done", "failed"})

C5_Witness ==
    /\ script = "04" /\ status = "done"
    /\ Len(calls) = 1 /\ Len(stdout) = 2

\* C7: in 03 the chat engine is called once for each line read before the
\* first "exit", in input order and with the line as it was read; the
\* response of each call is printed as "Agent: <response>" before the next
\* prompt; "exit" is never passed to the chat engine.
C7_ChatPerLine ==
    script = "03" =>
        /\ Len(calls) <= Len(lines_read)
        /\ \A i \in 1..Len(calls) :
              calls[i].q = lines_read[i] /\ calls[i].q # "exit"
        /\ (status = "running" /\ pc \in {17, 21}) =>
              Len(calls) = Len(lines_read)
        /\ status = "done" => Len(calls) = Len(lines_read) - 1
        /\ (status = "running" /\ pc = 17) => Len(stdout) = 2 * Len(calls)
        /\ \A k \in 1..Len(stdout) :
              IF k % 2 = 1
                THEN stdout[k] = [text |-> "User: ", resp |-> NoResponse]
                ELSE /\ stdout[k].text = "Agent: "
                     /\ stdout[k].resp = [to |-> lines_read[k \div 2], turn |-> k \div 2]
                     /\ calls[k \div 2].ok

C7_Witness ==
    /\ script = "03" /\ status = "done"
    /\ Len(calls) = 1 /\ calls[1].q = "hello"
    /\ Len(stdout) = 3 /\ stdout[2].resp.to = "hello"

\* C8: in 03 only a line that is exactly "exit" ends the loop; any other
\* line, "Exit", "EXIT", " exit", "exit ", "exit now" and the empty line
\* included, is sent to the chat engine.
C8_ExactExit ==
    script = "03" =>
        /\ status = "done" =>
              Len(lines_read) > 0 /\ lines_read[Len(lines_read)] = "exit"
        /\ \A i \in 1..Len(lines_read) :
              lines_read[i] # "exit" =>
                 \/ i <= Len(calls) /\ calls[i].q = lines_read[i]
                 \/ i = Len(lines_read) /\ status = "running" /\ pc \in {18, 20}

C8_Witness ==
    /\ script = "03" /\ status = "done"
    /\ Len(calls) = 1 /\ calls[1].q \in NearMisses /\ calls[1].ok

\* C9: 04 is not idempotent across runs: the directory and the collections
\* of ./chroma_db are never removed, no entry is ever deleted, and every
\* successful from_documents of 04 adds an entry for each loaded document,
\* whatever the collection already holds.
C9_NeverShrinks ==
    [][ /\ chroma_db.exists => chroma_db'.exists
        /\ \A c \in DOMAIN chroma_db.collections :
              /\ c \in DOMAIN chroma_db'.collections
              /\ \A d \in Files :
                    CopiesIn(d, chroma_db.collections[c]) <=
                        CopiesIn(d, chroma_db'.collections[c])
        /\ (At("04", 27) /\ pc' = 34) =>
              \A d \in documents :
                  CopiesIn(d, chroma_db'.collections["quickstart"]) =
                      CopiesIn(d, chroma_db.collections["quickstart"]) + 1
      ]_vars

C9_Witness ==
    /\ script = "04" /\ status = "done"
    /\ "quickstart" \in DOMAIN chroma_db.collections
    /\ \E d \in documents : CopiesIn(d, chroma_db.collections["quickstart"]) = 2

\* C10: in 03 the documents are loaded, the index is built and the chat
\* engine is created once, before the first prompt; the loop keeps using
\* that engine, whose conversation holds every exchange made so far.
C10_State ==
    script = "03" =>
        /\ Times("b") <= 1 /\ Times("c") <= 1 /\ Times("d") <= 1
        /\ (pc \in Loop03 \/ status = "done") =>
              /\ Times("b") = 1 /\ Times("c") = 1 /\ Times("d") = 1
              /\ engine.mode = "condense_question"
              /\ engine.over = index /\ index.docs = pdf
              /\ Len(engine.history) = Cardinality(OkCalls)
              /\ \A k \in 1..Len(engine.history) :
                    /\ engine.history[k][1] = lines_read[k]
                    /\ engine.history[k][2].turn = k
        /\ Len(stdout) > 0 => Times("d") = 1

C10_OneEngine ==
    /\ []C10_State
    /\ [][ (InLoop03 /\ invocations' = invocations) =>
              /\ UNCHANGED <<documents, index>>
              /\ \/ engine' = engine
                 \/ pc = 20 /\ engine' = AfterChat(engine, text_input) ]_vars

C10_Witness ==
    /\ script = "03" /\ status = "running" /\ pc = 17
    /\ Len(engine.history) = 2
====
